---- MODULE Spec2Model ----
(***************************************************************************)
(* Station acquisition, enrichment and rendering of erfiume:               *)
(*   app/erfiume/apis.py   Stazione, Valore, fetch_stations_data,          *)
(*                         fetch_time_series, enrich_data                  *)
(*   app/erfiume/tgbot.py  create_station_message                          *)
(*                                                                         *)
(* Floats are modelled by integers: only their order and equality matter.  *)
(* A Python value that may be None is a tuple: <<>> is None, <<x>> is x.   *)
(***************************************************************************)
EXTENDS Integers, Sequences, FiniteSets, TLC

VARIABLES
    pc,         \* position of the pipeline run
    response,   \* what the roster endpoint served to fetch_stations_data
    stations,   \* the list[Stazione] returned by fetch_stations_data
    snapshot,   \* the stations as they were handed to enrich_data
    tasks,      \* one fetch_time_series task per station, inside gather
    results,    \* what asyncio.gather returned
    idx,        \* position of the for loop of enrich_data
    log,        \* records written through logger
    exc,        \* the exception that escaped the running function
    station,    \* the Stazione handed to a renderer
    message     \* the message the renderer produced

vars == <<pc, response, stations, snapshot, tasks, results, idx, log, exc,
          station, message>>

pipelineVars == <<pc, response, stations, snapshot, tasks, results, idx, log, exc>>
renderVars == <<station, message>>

----------------------------------------------------------------------------
(* Bounds and input domains *)

MaxStations == 2
MaxReadings == 2

RosterTimes == {300}
ReadingSamples == {<<100, 0>>, <<200, 2>>, <<200, 0>>}
RosterValues == {<<>>, <<0>>, <<3>>}
HttpStatuses == {200, 500}
FetchErrors == {"HTTPStatusError", "ConnectError"}
RenderThresholds == {<<1>>, <<2>>, <<3>>}
RenderValues == {0, 1, 2, 3, 4}

----------------------------------------------------------------------------
(* apis.py: values and entities *)

UNKNOWN_VALUE == -9999

None == <<>>
Some(x) == <<x>>
Unwrap(o) == o[1]

\* Python's `a or b` on an optional float: None and 0.0 are falsy.
PyOr(a, b) == IF a = None \/ a = Some(0) THEN b ELSE a

\* Stazione.__post_init__
PostInit(value) == PyOr(value, Some(UNKNOWN_VALUE))

\* the dict comprehension of fetch_stations_data: v if v is not None else UNKNOWN_VALUE
NoneToUnknown(v) == IF v = None THEN Some(UNKNOWN_VALUE) ELSE v

StazioneKwargs ==
    {"idstazione", "ordinamento", "nomestaz", "lon", "lat",
     "soglia1", "soglia2", "soglia3", "value"}

\* Stazione(timestamp=time, **kwargs): the dataclass __init__ followed by __post_init__
Stazione(time, kw) ==
    [timestamp   |-> time,
     idstazione  |-> Unwrap(kw.idstazione),
     ordinamento |-> Unwrap(kw.ordinamento),
     nomestaz    |-> Unwrap(kw.nomestaz),
     lon         |-> Unwrap(kw.lon),
     lat         |-> Unwrap(kw.lat),
     soglia1     |-> Unwrap(kw.soglia1),
     soglia2     |-> Unwrap(kw.soglia2),
     soglia3     |-> Unwrap(kw.soglia3),
     value       |-> PostInit(kw.value)]

\* Valore(t, v)
Valore(t, v) == [t |-> t, v |-> v]

Readings == {Valore(s[1], s[2]) : s \in ReadingSamples}

SeqsUpTo(S, n) == UNION {[1..m -> S] : m \in 0..n}

Histories == SeqsUpTo(Readings, MaxReadings)

----------------------------------------------------------------------------
(* The roster endpoint's JSON *)

TimeRecord(t) == [time |-> Some(t)]

StationRecord(value) ==
    [idstazione  |-> Some("id"),
     ordinamento |-> Some(1),
     nomestaz    |-> Some("Cesena"),
     lon         |-> Some("12"),
     lat         |-> Some("44"),
     soglia1     |-> Some(1),
     soglia2     |-> Some(2),
     soglia3     |-> Some(3),
     value       |-> value]

\* a station record the upstream sent without its nomestaz
NamelessRecord(value) ==
    [k \in StazioneKwargs \ {"nomestaz"} |-> StationRecord(value)[k]]

RosterRecords ==
    {TimeRecord(t) : t \in RosterTimes}
        \cup {StationRecord(v) : v \in RosterValues}
        \cup {NamelessRecord(None)}

Responses ==
    [status : HttpStatuses, data : SeqsUpTo(RosterRecords, MaxStations)]

NoResponse == [status |-> 0, data |-> <<>>]

----------------------------------------------------------------------------
(* apis.py: fetch_stations_data *)

\* `for stazione in data if "time" not in stazione`
IsStationRecord(rec) == "time" \notin DOMAIN rec

Kept(data) == SelectSeq(data, IsStationRecord)

\* the keyword arguments the comprehension hands to Stazione
Kwargs(rec) == [k \in DOMAIN rec |-> NoneToUnknown(rec[k])]

\* Stazione(**kwargs) raises TypeError unless every field but timestamp is given
KwargsAccepted(rec) == DOMAIN rec = StazioneKwargs

\* response.raise_for_status()
StatusRaises(status) == status >= 400

LogEntry(fn, what) == [fn |-> fn, what |-> what]

\* The whole call: the request, the status check, the list comprehension and
\* the except clauses.  Neither except clause catches the TypeError of the
\* Stazione constructor; nothing in the try block raises KeyError or IndexError.
fetch_stations_data ==
    /\ pc = "start"
    /\ \E resp \in Responses, time \in RosterTimes :
        /\ response' = resp
        /\ IF StatusRaises(resp.status)
           THEN /\ log' = log \cup {LogEntry("fetch_stations_data", "HTTPStatusError")}
                /\ exc' = "HTTPStatusError"
                /\ pc' = "roster_failed"
                /\ UNCHANGED stations
           ELSE IF \E k \in 1..Len(Kept(resp.data)) : ~KwargsAccepted(Kept(resp.data)[k])
           THEN /\ exc' = "TypeError"
                /\ pc' = "roster_failed"
                /\ UNCHANGED <<stations, log>>
           ELSE /\ stations' = [k \in 1..Len(Kept(resp.data)) |->
                                    Stazione(time, Kwargs(Kept(resp.data)[k]))]
                /\ pc' = "fetched"
                /\ UNCHANGED <<log, exc>>
    /\ UNCHANGED <<snapshot, tasks, results, idx, renderVars>>

----------------------------------------------------------------------------
(* apis.py: fetch_time_series and enrich_data *)

Pending == [kind |-> "pending", dati |-> <<>>]
Raised(e) == [kind |-> e, dati |-> <<>>]
Returned(dati) == [kind |-> "ok", dati |-> dati]

Outcomes == {Raised(e) : e \in FetchErrors} \cup {Returned(h) : h \in Histories}

\* isinstance(dati, BaseException)
IsException(r) == r.kind \in FetchErrors

\* tasks = [...]; asyncio.gather(*tasks, return_exceptions=True) schedules them all
enrich_data_start ==
    /\ pc = "fetched"
    /\ snapshot' = stations
    /\ tasks' = [k \in 1..Len(stations) |-> Pending]
    /\ pc' = "gather"
    /\ response' = NoResponse     \* the frame of fetch_stations_data is gone
    /\ UNCHANGED <<stations, results, idx, log, exc, renderVars>>

\* One task runs to its end: the request, the status check, the Valore list,
\* and the except clause that logs an HTTPStatusError before re-raising it.
fetch_time_series(k) ==
    /\ pc = "gather"
    /\ tasks[k] = Pending
    /\ \E out \in Outcomes :
        /\ tasks' = [tasks EXCEPT ![k] = out]
        /\ log' = IF out.kind = "HTTPStatusError"
                  THEN log \cup {LogEntry("fetch_time_series", k)}
                  ELSE log
    /\ UNCHANGED <<pc, response, stations, snapshot, results, idx, exc, renderVars>>

\* gather without return_exceptions: the first failure ends the wait
GatherFailFast(t) ==
    \/ \A k \in DOMAIN t : t[k] # Pending
    \/ \E k \in DOMAIN t : t[k].kind \in FetchErrors

\* with return_exceptions=True gather resolves once every task has settled
GatherReady(t) == \A k \in DOMAIN t : t[k] # Pending

gather_returns ==
    /\ pc = "gather"
    /\ GatherReady(tasks)
    /\ results' = tasks
    /\ idx' = 1
    /\ pc' = "loop"
    /\ UNCHANGED <<response, stations, snapshot, tasks, log, exc, renderVars>>

\* max(dati, key=lambda x: x.t): the first reading among those of greatest t
PyMax(dati) ==
    dati[CHOOSE i \in 1..Len(dati) :
            /\ \A j \in 1..Len(dati) : dati[j].t <= dati[i].t
            /\ \A j \in 1..(i - 1) : dati[j].t < dati[i].t]

\* `stazione.value = max_value.v or None`: a zero reading becomes None
OverwriteFalsyAsNone(st, r) ==
    [st EXCEPT !.value = IF r.v = 0 THEN None ELSE Some(r.v), !.timestamp = r.t]

\* stazione.value = max_value.v; stazione.timestamp = max_value.t
Overwrite(st, r) == [st EXCEPT !.value = Some(r.v), !.timestamp = r.t]

\* one iteration of `for stazione, dati in zip(stations, results)`
enrich_data_loop ==
    /\ pc = "loop"
    /\ idx <= Len(stations)
    /\ IF IsException(results[idx])
       THEN /\ log' = log \cup {LogEntry("enrich_data", idx)}
            /\ idx' = idx + 1
            /\ UNCHANGED <<pc, stations, exc>>
       ELSE IF results[idx].dati = <<>>
       THEN \* max() of an empty sequence raises ValueError
            /\ exc' = "ValueError"
            /\ pc' = "raised"
            /\ UNCHANGED <<stations, idx, log>>
       ELSE /\ stations' = [stations EXCEPT
                                ![idx] = Overwrite(@, PyMax(results[idx].dati))]
            /\ idx' = idx + 1
            /\ UNCHANGED <<pc, log, exc>>
    /\ UNCHANGED <<response, snapshot, tasks, results, renderVars>>

\* zip is exhausted: enrich_data returns None
enrich_data_return ==
    /\ pc = "loop"
    /\ idx > Len(stations)
    /\ pc' = "done"
    /\ UNCHANGED <<response, stations, snapshot, tasks, results, idx, log, exc,
                   renderVars>>

----------------------------------------------------------------------------
(* The pipeline run: the roster, then its enrichment *)

NoStation == Stazione(0, Kwargs(StationRecord(None)))
NoMessage == [renderer |-> "none", shown |-> <<>>, alarm |-> ""]

Init ==
    /\ pc = "start"
    /\ response = NoResponse
    /\ stations = <<>>
    /\ snapshot = <<>>
    /\ tasks = <<>>
    /\ results = <<>>
    /\ idx = 0
    /\ log = {}
    /\ exc = "none"
    /\ station = NoStation
    /\ message = NoMessage

Next ==
    \/ fetch_stations_data
    \/ enrich_data_start
    \/ \E k \in DOMAIN tasks : fetch_time_series(k)
    \/ gather_returns
    \/ enrich_data_loop
    \/ enrich_data_return

Spec == Init /\ [][Next]_vars

----------------------------------------------------------------------------
(* apis.py and tgbot.py: the two renderers.  The alarm is named by its     *)
(* colour: "green", "yellow", "orange", "red" are the four circles, "" is  *)
(* no marker.  `shown` is the text after "Valore:": <<v>> for repr(v),     *)
(* NonDisponibile for "non disponibile".  The date line is left out.       *)

NonDisponibile == <<>>

\* the first test written `value < yellow`
StazioneAlarmStrict(value, yellow, orange, red) ==
    IF value < yellow THEN "green"
    ELSE IF value > yellow /\ value <= orange THEN "yellow"
    ELSE IF value >= orange /\ value <= red THEN "orange"
    ELSE "red"

\* apis.py: the if/elif chain of Stazione.create_station_message
StazioneAlarm(value, yellow, orange, red) ==
    IF value <= yellow THEN "green"
    ELSE IF value > yellow /\ value <= orange THEN "yellow"
    ELSE IF value >= orange /\ value <= red THEN "orange"
    ELSE "red"

\* apis.py: Stazione.create_station_message
Stazione_create_station_message(st) ==
    LET value == Unwrap(st.value)
        alarm == StazioneAlarm(value, st.soglia1, st.soglia2, st.soglia3)
    IN  IF value = UNKNOWN_VALUE
        THEN [renderer |-> "Stazione", shown |-> NonDisponibile, alarm |-> ""]
        ELSE [renderer |-> "Stazione", shown |-> Some(value), alarm |-> alarm]

\* tgbot.py: the if/elif chain of create_station_message
BotAlarm(value, yellow, orange, red) ==
    IF value <= yellow THEN "green"
    ELSE IF value > yellow /\ value <= orange THEN "yellow"
    ELSE IF value >= orange /\ value <= red THEN "orange"
    ELSE "red"

\* tgbot.py: create_station_message
create_station_message(st) ==
    LET value == Unwrap(st.value)
    IN  [renderer |-> "bot", shown |-> Some(value),
         alarm |-> BotAlarm(value, st.soglia1, st.soglia2, st.soglia3)]

\* a roster record with the given value and thresholds
RenderRecord(value, s1, s2, s3) ==
    [StationRecord(value) EXCEPT !.soglia1 = s1, !.soglia2 = s2, !.soglia3 = s3]

\* The stations a renderer can be handed: built from a roster record, and
\* then either left as built or overwritten by enrich_data from a reading.
BuiltStations ==
    {Stazione(t, Kwargs(RenderRecord(v, s1, s2, s3))) :
        t \in RosterTimes,
        v \in {None} \cup {Some(x) : x \in RenderValues},
        s1 \in RenderThresholds, s2 \in RenderThresholds, s3 \in RenderThresholds}

EnrichedStations ==
    {Overwrite(Stazione(t, Kwargs(RenderRecord(None, s1, s2, s3))), Valore(100, v)) :
        t \in RosterTimes,
        v \in RenderValues,
        s1 \in RenderThresholds, s2 \in RenderThresholds, s3 \in RenderThresholds}

InitRender ==
    /\ pc = "render"
    /\ response = NoResponse
    /\ stations = <<>>
    /\ snapshot = <<>>
    /\ tasks = <<>>
    /\ results = <<>>
    /\ idx = 0
    /\ log = {}
    /\ exc = "none"
    /\ station \in BuiltStations \cup EnrichedStations
    /\ message = NoMessage

RenderStazione ==
    /\ pc = "render"
    /\ message' = Stazione_create_station_message(station)
    /\ UNCHANGED <<pipelineVars, station>>

RenderBot ==
    /\ pc = "render"
    /\ message' = create_station_message(station)
    /\ UNCHANGED <<pipelineVars, station>>

NextRender ==
    \/ RenderStazione
    \/ RenderBot

SpecRender == InitRender /\ [][NextRender]_vars

----------------------------------------------------------------------------
(* Vocabulary of the properties *)

Terminated == pc \in {"done", "raised"}

FetchRaised(k) == IsException(results[k])
FetchGaveReadings(k) == results[k].kind = "ok" /\ results[k].dati # <<>>
FetchGaveNothing(k) == results[k].kind = "ok" /\ results[k].dati = <<>>

SameSample(a, b) == a.timestamp = b.timestamp /\ a.value = b.value

\* the station's (timestamp, value) is the (t, v) of one reading of `dati`
\* whose t is the greatest t of `dati`
IsFreshestOf(st, dati) ==
    \E j \in 1..Len(dati) :
        /\ \A i \in 1..Len(dati) : dati[i].t <= dati[j].t
        /\ st.timestamp = dati[j].t
        /\ st.value = Some(dati[j].v)

Rendered == message.renderer # "none"
RenderedValue == Unwrap(station.value)

----------------------------------------------------------------------------
(* Properties *)

\* C1: when some station's fetch raised, enrich_data returns normally, every
\* station whose fetch raised keeps its pre-enrichment timestamp and value, and
\* every station whose fetch gave readings is updated.
C1_FailuresIsolated ==
    (Terminated /\ \E k \in DOMAIN results : FetchRaised(k)) =>
        /\ pc = "done"
        /\ exc = "none"
        /\ \A k \in DOMAIN results :
            /\ FetchRaised(k) => SameSample(stations[k], snapshot[k])
            /\ FetchGaveReadings(k) => IsFreshestOf(stations[k], results[k].dati)

\* C2: a station whose fetch gave an empty list is left unmodified, no
\* exception is raised and no error is logged for it.
C2_EmptyHistoryTolerated ==
    Terminated =>
        \A k \in DOMAIN results :
            FetchGaveNothing(k) =>
                /\ exc = "none"
                /\ SameSample(stations[k], snapshot[k])
                /\ LogEntry("enrich_data", k) \notin log
                /\ LogEntry("fetch_time_series", k) \notin log

C4_UnknownRendersUnknown ==
    (Rendered /\ RenderedValue = UNKNOWN_VALUE) =>
        /\ message.alarm = ""
        /\ message.shown = NonDisponibile

\* C5 as stated: for a non-sentinel value, green whenever value <= yellow and
\* red whenever value > red, the thresholds in any order.
C5_GreenBelowYellowRedAboveRed ==
    (Rendered /\ RenderedValue # UNKNOWN_VALUE) =>
        /\ RenderedValue <= station.soglia1 => message.alarm = "green"
        /\ RenderedValue > station.soglia3 => message.alarm = "red"

\* C5 amended: for a non-sentinel value, green whenever value <= yellow, and
\* red whenever the value is above all three thresholds.
C5_GreenBelowYellowRedAboveAll ==
    (Rendered /\ RenderedValue # UNKNOWN_VALUE) =>
        /\ RenderedValue <= station.soglia1 => message.alarm = "green"
        /\ (/\ RenderedValue > station.soglia1
            /\ RenderedValue > station.soglia2
            /\ RenderedValue > station.soglia3) => message.alarm = "red"

\* C5 witness: the bot renders red a value above three thresholds that are
\* not ascending.
C5_Witness ==
    /\ Rendered
    /\ message.renderer = "bot"
    /\ RenderedValue # UNKNOWN_VALUE
    /\ RenderedValue > station.soglia1
    /\ RenderedValue > station.soglia2
    /\ RenderedValue > station.soglia3
    /\ station.soglia2 < station.soglia1
    /\ message.alarm = "red"

\* C6: one fetch per station; no station is mutated and enrich_data neither
\* goes on nor returns while a fetch is pending; a pending fetch can always
\* complete, whatever became of its siblings.
C6_WaitsForEveryFetch ==
    /\ pc \in {"gather", "loop", "done", "raised"} => Len(tasks) = Len(stations)
    /\ (\E k \in DOMAIN tasks : tasks[k] = Pending) =>
        /\ pc = "gather"
        /\ stations = snapshot
    /\ pc = "gather" =>
        \A k \in DOMAIN tasks : tasks[k] = Pending => ENABLED fetch_time_series(k)

\* C6 witness: gather has returned with one fetch failed and a sibling's
\* readings delivered.
C6_Witness ==
    /\ pc = "loop"
    /\ \E j, k \in DOMAIN results : FetchRaised(j) /\ FetchGaveReadings(k)

\* C7: when enrich_data ends, each station whose fetch gave readings holds the
\* (t, v) of one reading of its own history with the greatest t.
C7_MatchedFreshestPair ==
    Terminated =>
        \A k \in DOMAIN results :
            FetchGaveReadings(k) => IsFreshestOf(stations[k], results[k].dati)

\* C8: a roster response with a station record lacking nomestaz makes
\* fetch_stations_data fail with the malformed-response error (KeyError or
\* IndexError), logged and re-raised; no roster is returned.
C8_MalformedLoggedAndReraised ==
    (/\ pc \in {"fetched", "roster_failed"}
     /\ ~StatusRaises(response.status)
     /\ \E k \in 1..Len(response.data) :
            /\ IsStationRecord(response.data[k])
            /\ "nomestaz" \notin DOMAIN response.data[k]) =>
        /\ pc = "roster_failed"
        /\ exc \in {"KeyError", "IndexError"}
        /\ LogEntry("fetch_stations_data", exc) \in log

\* C9: a station's final (timestamp, value) is decided by its own fetch alone:
\* the freshest reading if the fetch gave readings, the pre-enrichment sample
\* otherwise, whatever the other stations' fetches did.
C9_OwnOutcomeDecides ==
    Terminated =>
        \A k \in DOMAIN results :
            IF FetchGaveReadings(k)
            THEN IsFreshestOf(stations[k], results[k].dati)
            ELSE SameSample(stations[k], snapshot[k])

\* C10: construction keeps every non-null input value, 0.0 included.
C10_NonNullValueKept ==
    pc = "fetched" =>
        \A k \in DOMAIN stations :
            Kept(response.data)[k].value # None =>
                stations[k].value = Kept(response.data)[k].value

====
